---- MODULE Spec2Model ----
(***************************************************************************)
(* Bitcoin tracker: db_setup.py (schema), add_entry.py (record command)    *)
(* and generate_chart.py (report command) over one SQLite file.            *)
(*                                                                         *)
(* Persistent state is the database file, its table `entries`, SQLite's    *)
(* AUTOINCREMENT counter and the chart file.  One command runs at a time   *)
(* (the scripts are started by hand, one after the other); every command   *)
(* is a fresh process, so its locals start unset.  The storage layer may   *)
(* raise at any call (io_error), which is what the except clauses of the   *)
(* scripts are written for.                                                *)
(***************************************************************************)
EXTENDS Integers, Sequences, FiniteSets, TLC

VARIABLES
    db_file_exists,   \* os.path.exists(DB_FILE)
    has_table,        \* the table `entries` exists in the file
    entries,          \* rows of the table, in the order they were inserted
    sqlite_sequence,  \* AUTOINCREMENT: largest id ever handed out
    chart_saved,      \* entwicklung.png exists
    io_error,         \* the storage layer raises on the next call
    cmd,              \* which script is running
    pc,               \* where it is
    argv,             \* sys.argv[1:], each argument a tuple of characters
    verdiente_satoshi,\* add_entry.main: the parsed amount
    btc_price,        \* add_entry: the fetched price
    last_total,       \* add_entry: the total read back
    result,           \* add_entry's return value
    exit_code,        \* the process's exit status
    rows              \* generate_chart.main: what load_data returned

vars == <<db_file_exists, has_table, entries, sqlite_sequence, chart_saved,
          io_error, cmd, pc, argv, verdiente_satoshi, btc_price, last_total,
          result, exit_code, rows>>

\* Python's None, and a local not assigned yet: the empty tuple.  A value v
\* that may be None is held as <<v>>.
None == <<>>
Some(v) == <<v>>

(***************************************************************************)
(* Bounds of the model.                                                    *)
(***************************************************************************)
\* Commands that would record start only while the ledger is shorter.
MaxRows == 3

(***************************************************************************)
(* Python floats: IEEE-754 binary64, round to nearest, ties to even.       *)
(* A positive float is [sig, exp]: sig the 53 bits of the significand,     *)
(* most significant first (sig[1] = 1), and the value is sig * 2^exp.      *)
(***************************************************************************)
MantBits == 53

UNITS_PER_COIN == 100000000

\* The binary digits of n < 2^30, most significant first; <<>> for 0.
NatBits(n) ==
    LET len == CHOOSE k \in 0..30 : n < 2^k /\ (k = 0 \/ n >= 2^(k - 1))
    IN  [i \in 1..len |-> (n \div 2^(len - i)) % 2]

\* The bits of a string of hexadecimal digits, four to a digit.
HexBits(digits) ==
    [j \in 1..(4 * Len(digits)) |->
        (digits[((j - 1) \div 4) + 1] \div 2^(3 - ((j - 1) % 4))) % 2]

\* The hexadecimal digits of a string of bits whose length is a multiple of 4.
BitsHex(bits) ==
    [i \in 1..(Len(bits) \div 4) |->
        8 * bits[4 * i - 3] + 4 * bits[4 * i - 2] + 2 * bits[4 * i - 1] + bits[4 * i]]

\* bits without its leading zeros.
StripZeros(bits) ==
    IF \A i \in 1..Len(bits) : bits[i] = 0 THEN <<>>
    ELSE LET first == CHOOSE i \in 1..Len(bits) :
                          bits[i] = 1 /\ \A j \in 1..(i - 1) : bits[j] = 0
         IN  SubSeq(bits, first, Len(bits))

\* sig plus one, as a pair <<carry out, bits>>.
Inc(sig) ==
    IF \A i \in 1..Len(sig) : sig[i] = 1 THEN <<1, [i \in 1..Len(sig) |-> 0]>>
    ELSE LET z == CHOOSE i \in 1..Len(sig) :
                      sig[i] = 0 /\ \A j \in (i + 1)..Len(sig) : sig[j] = 1
         IN  <<0, [i \in 1..Len(sig) |->
                      IF i < z THEN sig[i] ELSE IF i = z THEN 1 ELSE 0]>>

\* Does any of bits[from..] differ from 0?
AnySet(bits, from) == \E i \in from..Len(bits) : bits[i] = 1

\* The float nearest to bits * 2^exp (plus a nonzero tail below the last
\* bit when sticky), ties to even.  bits has no leading zero.
RoundBits(bits, exp, sticky) ==
    IF Len(bits) <= MantBits
    THEN [sig |-> bits \o [i \in 1..(MantBits - Len(bits)) |-> 0],
          exp |-> exp - (MantBits - Len(bits))]
    ELSE LET kept  == SubSeq(bits, 1, MantBits)
             guard == bits[MantBits + 1]
             rest  == sticky \/ AnySet(bits, MantBits + 2)
             e     == exp + (Len(bits) - MantBits)
             up    == guard = 1 /\ (rest \/ kept[MantBits] = 1)
             inc   == Inc(kept)
         IN  IF ~up THEN [sig |-> kept, exp |-> e]
             ELSE IF inc[1] = 0 THEN [sig |-> inc[2], exp |-> e]
             ELSE [sig |-> <<1>> \o [i \in 1..(MantBits - 1) |-> 0], exp |-> e + 1]

RECURSIVE DivDigits(_, _, _, _)
\* Long division in base 16 (16 * b stays below 2^31): r is the remainder so
\* far, acc the digits of the quotient after the point.  Stops once the
\* quotient has more bits than the significand holds, from its first 1 on;
\* what is left of r is the sticky tail.
DivDigits(r, b, acc, whole) ==
    IF /\ Len(acc) >= 14
       /\ whole \/ \E j \in 1..(Len(acc) - 14) : acc[j] # 0
    THEN [digits |-> acc, rem |-> r]
    ELSE DivDigits((16 * r) % b, b, Append(acc, (16 * r) \div b), whole)

\* a / b for positive ints: Python's true division, correctly rounded.
TrueDiv(a, b) ==
    LET d == DivDigits(a % b, b, <<>>, a \div b > 0)
    IN  RoundBits(StripZeros(NatBits(a \div b) \o HexBits(d.digits)),
                  0 - 4 * Len(d.digits), d.rem # 0)

RECURSIVE MulDigits(_, _, _, _, _)
\* digits[1..i] * k + carry in base 16, prepended to acc, as bits.
MulDigits(digits, i, k, carry, acc) ==
    IF i = 0 THEN NatBits(carry) \o HexBits(acc)
    ELSE LET t == digits[i] * k + carry
         IN  MulDigits(digits, i - 1, k, t \div 16, <<t % 16>> \o acc)

\* x * k for a float x and a price k whose value is a whole number.
FloatMul(x, k) ==
    LET digits == BitsHex(<<0, 0, 0>> \o x.sig)
    IN  RoundBits(StripZeros(MulDigits(digits, Len(digits), k, 0, <<>>)),
                  x.exp, FALSE)

\* The float just above x.
NextUp(x) ==
    LET inc == Inc(x.sig)
    IN  IF inc[1] = 0 THEN [sig |-> inc[2], exp |-> x.exp]
        ELSE [sig |-> <<1>> \o [i \in 1..(MantBits - 1) |-> 0], exp |-> x.exp + 1]

\* Variant: multiply first, divide once (exact where the code rounds twice).
euro_wert_of_MulFirst(gesamt_satoshi, price) ==
    TrueDiv(gesamt_satoshi * price, UNITS_PER_COIN)

\* add_entry.py line 54.
euro_wert_of(gesamt_satoshi, price) ==
    FloatMul(TrueDiv(gesamt_satoshi, UNITS_PER_COIN), price)

(***************************************************************************)
(* int(sys.argv[1]): surrounding blanks are dropped, then an optional      *)
(* sign, then digits, single underscores allowed between digits.           *)
(***************************************************************************)
Digits == <<"0", "1", "2", "3", "4", "5", "6", "7", "8", "9">>

IsDigit(c) == \E i \in 1..Len(Digits) : Digits[i] = c

DigitVal(c) == (CHOOSE i \in 1..Len(Digits) : Digits[i] = c) - 1

RECURSIVE StripLeft(_)
StripLeft(s) == IF s # <<>> /\ Head(s) = " " THEN StripLeft(Tail(s)) ELSE s

RECURSIVE StripRight(_)
StripRight(s) ==
    IF s # <<>> /\ s[Len(s)] = " " THEN StripRight(SubSeq(s, 1, Len(s) - 1)) ELSE s

ValidDigits(body) ==
    /\ body # <<>>
    /\ \A i \in 1..Len(body) :
          \/ IsDigit(body[i])
          \/ /\ body[i] = "_"
             /\ 1 < i /\ i < Len(body)
             /\ IsDigit(body[i - 1]) /\ IsDigit(body[i + 1])

RECURSIVE DigitsValue(_, _)
DigitsValue(body, acc) ==
    IF body = <<>> THEN acc
    ELSE IF Head(body) = "_" THEN DigitsValue(Tail(body), acc)
    ELSE DigitsValue(Tail(body), 10 * acc + DigitVal(Head(body)))

\* None stands for ValueError.
PyInt(s) ==
    LET t      == StripRight(StripLeft(s))
        signed == t # <<>> /\ t[1] \in {"+", "-"}
        body   == IF signed THEN Tail(t) ELSE t
    IN  IF ~ValidDigits(body) THEN None
        ELSE IF signed /\ t[1] = "-" THEN Some(0 - DigitsValue(body, 0))
        ELSE Some(DigitsValue(body, 0))

(***************************************************************************)
(* Inputs.                                                                 *)
(***************************************************************************)
\* Command lines of add_entry.py (sys.argv[1:]).
ArgvSamples ==
    { <<>>,                                      \* no argument
      << <<"1", "5", "0", "0">> >>,              \* 1500
      << <<"2", "5", "0", "0">> >>,              \* 2500
      << <<"+", "2", "5", "0", "0">> >>,         \* +2500
      << <<"0">> >>,                             \* 0
      << <<"-", "5">> >>,                        \* -5
      << <<"1", ".", "5">> >>,                   \* 1.5
      << <<"a", "b", "c">> >>,                   \* abc
      << <<"1", "5", "0", "0">>, <<"7">> >> }    \* two arguments

\* Prices the quote API may answer with (whole euros).
Prices == {50000, 60000}

\* What the HTTP request may end in: no answer, a status that
\* raise_for_status rejects, a body without ['bitcoin']['eur'], or a quote.
Responses ==
    {[kind |-> k, eur |-> 0] : k \in {"timeout", "http_error", "malformed"}}
        \cup {[kind |-> "ok", eur |-> p] : p \in Prices}

(***************************************************************************)
(* The store.                                                              *)
(***************************************************************************)
Max(a, b) == IF a >= b THEN a ELSE b

Table == {entries[i] : i \in 1..Len(entries)}

RECURSIVE OrderByIdAsc_Desc(_)
\* Variant: the rows by falling id.
OrderByIdAsc_Desc(S) ==
    IF S = {} THEN <<>>
    ELSE LET m == CHOOSE r \in S : \A q \in S : r.id >= q.id
         IN  <<m>> \o OrderByIdAsc_Desc(S \ {m})

RECURSIVE OrderByIdAsc(_)
\* ORDER BY id ASC
OrderByIdAsc(S) ==
    IF S = {} THEN <<>>
    ELSE LET m == CHOOSE r \in S : \A q \in S : r.id <= q.id
         IN  <<m>> \o OrderByIdAsc(S \ {m})

RECURSIVE OrderByIdDesc(_)
\* ORDER BY id DESC
OrderByIdDesc(S) ==
    IF S = {} THEN <<>>
    ELSE LET m == CHOOSE r \in S : \A q \in S : r.id >= q.id
         IN  <<m>> \o OrderByIdDesc(S \ {m})

\* LIMIT n
Limit(s, n) == IF Len(s) <= n THEN s ELSE SubSeq(s, 1, n)

RECURSIVE MaxRowid(_)
MaxRowid(t) == IF t = <<>> THEN 0 ELSE Max(Head(t).id, MaxRowid(Tail(t)))

\* INTEGER PRIMARY KEY AUTOINCREMENT: one more than the largest id ever used.
NextId == Max(sqlite_sequence, MaxRowid(entries)) + 1

\* A connection, once opened, leaves the file behind.
Connected == db_file_exists \/ ~io_error

\* Does a statement on `entries` raise?
Raises == io_error \/ ~has_table

(***************************************************************************)
(* add_entry.py                                                            *)
(***************************************************************************)
get_btc_price_eur(response) ==
    IF response.kind = "ok" THEN Some(response.eur) ELSE None

\* Variant: the first row's total instead of the last row's.
get_last_total_satoshi_Asc ==
    IF Raises THEN 0
    ELSE LET fetched == Limit(OrderByIdAsc(Table), 1)
         IN  IF fetched # <<>> THEN fetched[1].gesamt_satoshi_bis_dahin ELSE 0

get_last_total_satoshi ==
    IF Raises THEN 0
    ELSE LET fetched == Limit(OrderByIdDesc(Table), 1)
         IN  IF fetched # <<>> THEN fetched[1].gesamt_satoshi_bis_dahin ELSE 0

NewRow(earned, price, last) ==
    [id                       |-> NextId,
     verdiente_satoshi        |-> earned,
     btc_eur_preis            |-> price,
     gesamt_satoshi_bis_dahin |-> last + earned,
     euro_wert                |-> euro_wert_of(last + earned, price)]

(***************************************************************************)
(* generate_chart.py                                                       *)
(***************************************************************************)
\* The columns the query selects, but for timestamp: the store stamps each
\* row with the time of its insert, and nothing here reads the value.
Projected(t) == [i \in 1..Len(t) |-> <<t[i].euro_wert, t[i].btc_eur_preis>>]

\* None when the query raises and when it finds no row.
load_data == IF Raises THEN None ELSE Projected(OrderByIdAsc(Table))

(***************************************************************************)
(* State machine.                                                          *)
(***************************************************************************)
Terminal == {"idle", "done", "sys_exit", "raised"}

Init ==
    /\ db_file_exists = FALSE
    /\ has_table = FALSE
    /\ entries = <<>>
    /\ sqlite_sequence = 0
    /\ chart_saved = FALSE
    /\ io_error = FALSE
    /\ cmd = "none"
    /\ pc = "idle"
    /\ argv = <<>>
    /\ verdiente_satoshi = None
    /\ btc_price = None
    /\ last_total = None
    /\ result = None
    /\ exit_code = None
    /\ rows = None

store == <<db_file_exists, has_table, entries, sqlite_sequence>>
locals == <<verdiente_satoshi, btc_price, last_total, result, rows>>

\* A new process: nothing is carried over from the one before.
Fresh(c, args) ==
    /\ pc \in Terminal
    /\ cmd' = c
    /\ argv' = args
    /\ btc_price' = None
    /\ last_total' = None
    /\ result' = None
    /\ rows' = None

\* Variant: the amount is not checked against 0.
RecordMain_NoSignCheck(args) ==
    /\ Len(entries) < MaxRows
    /\ Fresh("record", args)
    /\ LET parsed == IF Len(args) = 1 THEN PyInt(args[1]) ELSE None
           valid  == parsed # None
       IN  /\ verdiente_satoshi' = IF Len(args) = 1 THEN parsed ELSE None
           /\ pc' = IF ~valid THEN "sys_exit"
                    ELSE IF db_file_exists THEN "get_price" ELSE "setup_connect"
           /\ exit_code' = IF ~valid THEN Some(1) ELSE None
    /\ UNCHANGED <<store, chart_saved, io_error>>

\* add_entry.py main, lines 80-97: the argument checks and the test for the file.
RecordMain(args) ==
    /\ Len(entries) < MaxRows
    /\ Fresh("record", args)
    /\ LET parsed == IF Len(args) = 1 THEN PyInt(args[1]) ELSE None
           valid  == parsed # None /\ parsed[1] > 0
       IN  /\ verdiente_satoshi' = IF Len(args) = 1 THEN parsed ELSE None
           /\ pc' = IF ~valid THEN "sys_exit"
                    ELSE IF db_file_exists THEN "get_price" ELSE "setup_connect"
           /\ exit_code' = IF ~valid THEN Some(1) ELSE None
    /\ UNCHANGED <<store, chart_saved, io_error>>

\* db_setup.py run as a script.
SetupMain ==
    /\ Fresh("setup", <<>>)
    /\ verdiente_satoshi' = None
    /\ pc' = "setup_connect"
    /\ exit_code' = None
    /\ UNCHANGED <<store, chart_saved, io_error>>

\* setup_database, line 13; nothing catches what it raises.
SetupConnect ==
    /\ pc = "setup_connect"
    /\ IF io_error
       THEN pc' = "raised" /\ exit_code' = Some(1) /\ UNCHANGED db_file_exists
       ELSE pc' = "setup_create" /\ db_file_exists' = TRUE /\ UNCHANGED exit_code
    /\ UNCHANGED <<has_table, entries, sqlite_sequence, chart_saved, io_error,
                   cmd, argv, locals>>

\* Variant: the table is dropped and created anew.
SetupCreate_Recreate ==
    /\ pc = "setup_create"
    /\ IF io_error
       THEN pc' = "raised" /\ exit_code' = Some(1) /\ UNCHANGED <<has_table, entries>>
       ELSE /\ has_table' = TRUE
            /\ entries' = <<>>
            /\ pc' = IF cmd = "record" THEN "get_price" ELSE "done"
            /\ exit_code' = IF cmd = "record" THEN None ELSE Some(0)
    /\ UNCHANGED <<db_file_exists, sqlite_sequence, chart_saved,
                   io_error, cmd, argv, locals>>

\* setup_database, lines 17-29: CREATE TABLE IF NOT EXISTS, commit.
SetupCreate ==
    /\ pc = "setup_create"
    /\ IF io_error
       THEN pc' = "raised" /\ exit_code' = Some(1) /\ UNCHANGED has_table
       ELSE /\ has_table' = TRUE
            /\ pc' = IF cmd = "record" THEN "get_price" ELSE "done"
            /\ exit_code' = IF cmd = "record" THEN None ELSE Some(0)
    /\ UNCHANGED <<db_file_exists, entries, sqlite_sequence, chart_saved,
                   io_error, cmd, argv, locals>>

\* Variant: the message is printed and add_entry goes on.
GetPrice_NoReturn(response) ==
    /\ pc = "get_price"
    /\ btc_price' = get_btc_price_eur(response)
    /\ pc' = "read_last"
    /\ UNCHANGED <<store, chart_saved, io_error, cmd, argv, verdiente_satoshi,
                   last_total, result, exit_code, rows>>

\* add_entry, lines 44-47.
GetPrice(response) ==
    /\ pc = "get_price"
    /\ btc_price' = get_btc_price_eur(response)
    /\ IF btc_price' = None
       THEN result' = Some(FALSE) /\ pc' = "done" /\ exit_code' = Some(0)
       ELSE pc' = "read_last" /\ UNCHANGED <<result, exit_code>>
    /\ UNCHANGED <<store, chart_saved, io_error, cmd, argv, verdiente_satoshi,
                   last_total, rows>>

\* add_entry, line 50.
ReadLast ==
    /\ pc = "read_last"
    /\ last_total' = Some(get_last_total_satoshi)
    /\ db_file_exists' = Connected
    /\ pc' = "insert"
    /\ UNCHANGED <<has_table, entries, sqlite_sequence, chart_saved, io_error,
                   cmd, argv, verdiente_satoshi, btc_price, result, exit_code, rows>>

\* Variant: the row stays although the statement raised before the commit.
Insert_PartialRow ==
    /\ pc = "insert"
    /\ db_file_exists' = Connected
    /\ IF ~has_table
       THEN result' = Some(FALSE) /\ UNCHANGED <<entries, sqlite_sequence>>
       ELSE /\ entries' = Append(entries,
                             NewRow(verdiente_satoshi[1], btc_price[1], last_total[1]))
            /\ sqlite_sequence' = NextId
            /\ result' = Some(~io_error)
    /\ pc' = "done"
    /\ exit_code' = Some(0)
    /\ UNCHANGED <<has_table, chart_saved, io_error, cmd, argv, verdiente_satoshi,
                   btc_price, last_total, rows>>

\* add_entry, lines 51-77, and main's return.
Insert ==
    /\ pc = "insert"
    /\ db_file_exists' = Connected
    /\ IF Raises
       THEN result' = Some(FALSE) /\ UNCHANGED <<entries, sqlite_sequence>>
       ELSE /\ entries' = Append(entries,
                             NewRow(verdiente_satoshi[1], btc_price[1], last_total[1]))
            /\ sqlite_sequence' = NextId
            /\ result' = Some(TRUE)
    /\ pc' = "done"
    /\ exit_code' = Some(0)
    /\ UNCHANGED <<has_table, chart_saved, io_error, cmd, argv, verdiente_satoshi,
                   btc_price, last_total, rows>>

\* generate_chart.py main, lines 117-121.
ReportMain ==
    /\ Fresh("report", <<>>)
    /\ verdiente_satoshi' = None
    /\ pc' = IF db_file_exists THEN "load" ELSE "done"
    /\ exit_code' = IF db_file_exists THEN None ELSE Some(0)
    /\ UNCHANGED <<store, chart_saved, io_error>>

\* Variant: the chart is drawn whatever load_data returned.
LoadData_AlwaysRender ==
    /\ pc = "load"
    /\ rows' = load_data
    /\ pc' = "render"
    /\ UNCHANGED <<store, chart_saved, io_error, cmd, argv, verdiente_satoshi,
                   btc_price, last_total, result, exit_code>>

\* generate_chart.py main, lines 122-127, with load_data.
LoadData ==
    /\ pc = "load"
    /\ rows' = load_data
    /\ IF rows' # None
       THEN pc' = "render" /\ UNCHANGED exit_code
       ELSE pc' = "done" /\ exit_code' = Some(0)
    /\ UNCHANGED <<store, chart_saved, io_error, cmd, argv, verdiente_satoshi,
                   btc_price, last_total, result>>

\* generate_chart: savefig, line 104; nothing catches what it raises.
Render ==
    /\ pc = "render"
    /\ IF io_error
       THEN pc' = "raised" /\ exit_code' = Some(1) /\ UNCHANGED chart_saved
       ELSE pc' = "done" /\ exit_code' = Some(0) /\ chart_saved' = TRUE
    /\ UNCHANGED <<store, io_error, cmd, argv, locals>>

\* The storage layer starts or stops failing (locked file, I/O error).
StorageFault ==
    /\ io_error' = ~io_error
    /\ UNCHANGED <<store, chart_saved, cmd, pc, argv, locals, exit_code>>

Next ==
    \/ \E args \in ArgvSamples : RecordMain(args)
    \/ SetupMain
    \/ SetupConnect
    \/ SetupCreate
    \/ \E response \in Responses : GetPrice(response)
    \/ ReadLast
    \/ Insert
    \/ ReportMain
    \/ LoadData
    \/ Render
    \/ StorageFault

Spec == Init /\ [][Next]_vars

(***************************************************************************)
(* Properties.                                                             *)
(***************************************************************************)
RECURSIVE SumEarned(_, _)
\* e_1 + ... + e_k
SumEarned(t, k) ==
    IF k = 0 THEN 0 ELSE t[k].verdiente_satoshi + SumEarned(t, k - 1)

\* The float written 0x1.<digits>p<p>, thirteen hexadecimal digits.
FromHex(digits, p) == [sig |-> <<1>> \o HexBits(digits), exp |-> p - 52]

\* 0.75 = 0x1.8000000000000p-1
Float_0_75 == FromHex(<<8, 0, 0, 0, 0, 0, 0, 0, 0, 0, 0, 0, 0>>, 0 - 1)

\* 2.4 = 0x1.3333333333333p+1
Float_2_4 == FromHex(<<3, 3, 3, 3, 3, 3, 3, 3, 3, 3, 3, 3, 3>>, 1)

\* 2.4000000000000004 = 0x1.3333333333334p+1
Float_2_4000000000000004 == FromHex(<<3, 3, 3, 3, 3, 3, 3, 3, 3, 3, 3, 3, 4>>, 1)

\* The most recently inserted row's total, 0 for an empty ledger.
LatestTotal ==
    IF entries = <<>> THEN 0 ELSE entries[Len(entries)].gesamt_satoshi_bis_dahin

\* A command line that names one amount: an optional sign and digits, not
\* negative and not zero.
PositiveAmountText(arg) ==
    LET body == IF arg # <<>> /\ arg[1] = "+" THEN Tail(arg) ELSE arg
    IN  /\ body # <<>>
        /\ \A i \in 1..Len(body) : IsDigit(body[i])
        /\ \E i \in 1..Len(body) : body[i] # "0"

ValidCommandLine(args) == Len(args) = 1 /\ PositiveAmountText(args[1])

\* C1: the k-th row's gesamt_satoshi_bis_dahin is the sum of the first k
\* rows' verdiente_satoshi.
C1_CumulativeIsRunningSum ==
    \A k \in 1..Len(entries) :
        entries[k].gesamt_satoshi_bis_dahin = SumEarned(entries, k)

\* C2: when the price fetch comes back with None, add_entry returns False at
\* once and the store is as it was; no row is ever inserted without a price.
C2_AbsentPriceNeverAppends ==
    [][/\ (pc = "get_price" /\ pc' # "get_price" /\ btc_price' = None)
            => (pc' = "done" /\ result' = Some(FALSE) /\ store' = store)
       /\ (entries' # entries) => btc_price # None]_vars

C2_Witness ==
    /\ cmd = "record" /\ pc = "done"
    /\ btc_price = None /\ last_total = None /\ result = Some(FALSE)
    /\ Len(entries) = 2

\* C3: a record command whose command line is not one positive integer ends
\* with sys.exit(1), having changed nothing that persists: no row, no table,
\* no database file.
C3_InvalidAmountRejected ==
    [][(cmd' = "record" /\ ~ValidCommandLine(argv'))
            => /\ pc' = "sys_exit" /\ exit_code' = Some(1) /\ result' = None
               /\ store' = store
               /\ chart_saved' = chart_saved]_vars

C3_Witness ==
    /\ cmd = "record" /\ pc = "sys_exit" /\ exit_code = Some(1)
    /\ argv = << <<"-", "5">> >>
    /\ ~db_file_exists /\ entries = <<>>

\* C4: get_last_total_satoshi returns the total of the row inserted last,
\* which is the row with the greatest id; 0 for an empty ledger; 0 when the
\* read raises; and it leaves the table as it was.
C4_LastTotal ==
    [][(pc = "read_last" /\ pc' = "insert")
            => /\ last_total' = Some(IF io_error \/ ~has_table THEN 0 ELSE LatestTotal)
               /\ \A i \in 1..Len(entries) : entries[i].id <= entries[Len(entries)].id
               /\ entries' = entries
               /\ sqlite_sequence' = sqlite_sequence
               /\ has_table' = has_table]_vars

C4_Witness ==
    /\ pc = "insert" /\ Len(entries) = 2
    /\ entries[1].gesamt_satoshi_bis_dahin = 1500
    /\ last_total = Some(4000)

\* C5: no step changes or removes a row; a row is added only by add_entry's
\* insert, one row, and exactly when add_entry returns True.
C5_AppendOnly ==
    [][/\ \/ entries' = entries
          \/ /\ pc = "insert" /\ pc' = "done" /\ result' = Some(TRUE)
             /\ Len(entries') = Len(entries) + 1
             /\ SubSeq(entries', 1, Len(entries)) = entries
       /\ (pc = "insert" /\ result' = Some(TRUE)) => Len(entries') = Len(entries) + 1]_vars

C5_Witness ==
    /\ Len(entries) = 3 /\ chart_saved
    /\ cmd = "setup" /\ pc = "done"

\* C6: ids grow strictly in the order of insertion, and the query ordered by
\* id hands back every row once, in the order of insertion.
C6_IdsAndOrder ==
    /\ \A i, j \in 1..Len(entries) : i < j => entries[i].id < entries[j].id
    /\ OrderByIdAsc(Table) = entries
    /\ ~Raises => load_data = Projected(entries)

C6_Witness ==
    /\ cmd = "report" /\ pc = "render"
    /\ Len(entries) = 3 /\ rows = Projected(entries)

\* C7 as stated: euro_wert is (gesamt / 100000000) * price of the row's own
\* columns; from a fresh store 1500 at 50000 gives 1500 and 0.75, then 2500
\* at 60000 gives 4000 and 2.4.
C7_FiatValueAsStated ==
    /\ \A i \in 1..Len(entries) :
          entries[i].euro_wert =
              euro_wert_of(entries[i].gesamt_satoshi_bis_dahin, entries[i].btc_eur_preis)
    /\ (/\ Len(entries) >= 1
        /\ entries[1].verdiente_satoshi = 1500 /\ entries[1].btc_eur_preis = 50000)
         => (/\ entries[1].gesamt_satoshi_bis_dahin = 1500
             /\ entries[1].euro_wert = Float_0_75)
    /\ (/\ Len(entries) >= 2
        /\ entries[1].verdiente_satoshi = 1500 /\ entries[1].btc_eur_preis = 50000
        /\ entries[2].verdiente_satoshi = 2500 /\ entries[2].btc_eur_preis = 60000)
         => (/\ entries[2].gesamt_satoshi_bis_dahin = 4000
             /\ entries[2].euro_wert = Float_2_4)

\* C7, amended: euro_wert is the double that (gesamt / 100000000) * price
\* evaluates to on the row's own columns; the first row of a fresh store,
\* 1500 at 50000, has total 1500 and value 0.75; a row with total 4000 at
\* 60000 has value 2.4000000000000004, one unit in the last place above 2.4.
C7_FiatValue ==
    /\ \A i \in 1..Len(entries) :
          /\ entries[i].euro_wert =
                 euro_wert_of(entries[i].gesamt_satoshi_bis_dahin, entries[i].btc_eur_preis)
          /\ (entries[i].gesamt_satoshi_bis_dahin = 4000 /\ entries[i].btc_eur_preis = 60000)
                => /\ entries[i].euro_wert = Float_2_4000000000000004
                   /\ entries[i].euro_wert = NextUp(Float_2_4)
    /\ (/\ Len(entries) >= 1
        /\ entries[1].verdiente_satoshi = 1500 /\ entries[1].btc_eur_preis = 50000)
         => (/\ entries[1].gesamt_satoshi_bis_dahin = 1500
             /\ entries[1].euro_wert = Float_0_75)

C7_Witness ==
    /\ Len(entries) >= 2
    /\ entries[1].verdiente_satoshi = 1500 /\ entries[1].btc_eur_preis = 50000
    /\ entries[2].verdiente_satoshi = 2500 /\ entries[2].btc_eur_preis = 60000
    /\ entries[2].gesamt_satoshi_bis_dahin = 4000

\* C8: a report run over an empty ledger, the file missing or the table
\* without rows, writes no chart, raises nothing and returns.
C8_EmptyLedgerNoChart ==
    [][(cmd' = "report" /\ entries' = <<>>)
            => /\ chart_saved' = chart_saved
               /\ pc' \in {"load", "done"}
               /\ pc' = "done" => (exit_code' = Some(0) /\ rows' = None)]_vars

C8_Witness ==
    /\ cmd = "report" /\ pc = "done" /\ exit_code = Some(0)
    /\ db_file_exists /\ has_table /\ ~io_error
    /\ entries = <<>> /\ ~chart_saved

\* C9: when the insert raises, add_entry returns False, nothing propagates,
\* and the table and its id counter are as they were.
C9_FailedAppendLeavesLedger ==
    [][(pc = "insert" /\ pc' # "insert")
            => /\ pc' = "done" /\ exit_code' = Some(0)
               /\ (io_error \/ ~has_table) => result' = Some(FALSE)
               /\ result' = Some(FALSE)
                    => (entries' = entries /\ sqlite_sequence' = sqlite_sequence)]_vars

C9_Witness ==
    /\ cmd = "record" /\ pc = "done"
    /\ last_total # None /\ result = Some(FALSE)
    /\ io_error /\ Len(entries) = 2

\* C10: the price is there before the total is read; the total is read in
\* this run, after the price; and the row inserted carries the latest
\* persisted total plus its own amount.
C10_FreshTotalKeepsRunningSum ==
    [][/\ pc' = "read_last" => (btc_price' # None /\ last_total' = None)
       /\ pc' = "insert" => (btc_price' # None /\ last_total' # None)
       /\ (pc = "insert" /\ entries' # entries)
            => entries'[Len(entries')].gesamt_satoshi_bis_dahin
                   = LatestTotal + verdiente_satoshi[1]]_vars

====
